---- MODULE Spec2Model ----
(***************************************************************************)
(* Model of the pipeline-monitor core: EnricherService (concurrent         *)
(* providers over one batch of session nodes), TreeEvaluatorService        *)
(* (recursive rule-tree evaluation per node) and JsonReporter (per-node    *)
(* results and Sankey flow links).                                         *)
(*                                                                         *)
(* Conventions.  A Python dict is a function whose DOMAIN is its key set;  *)
(* a list is a sequence; a str is a string and + / f-string formatting is  *)
(* \o.  Session nodes are StandardSessionNode objects: records[i] holds    *)
(* the identity fields of the i-th node of the batch and metadata[i],      *)
(* errors[i] its two mutable fields (errors always exists on a             *)
(* StandardSessionNode, so getattr(node, "errors", None) finds a list).    *)
(* A failing provider or rule raises an Exception subclass, which is what  *)
(* `except Exception` handles.                                             *)
(***************************************************************************)
EXTENDS Naturals, Sequences, FiniteSets, TLC

VARIABLES
    records,      \* the batch: sequence of [participant_id, capture_date, capture_time]
    metadata,     \* metadata[i]: node.metadata of the i-th node (dict)
    errors,       \* errors[i]: node.errors of the i-th node (list of dicts)
    providers,    \* EnricherService.providers: sequence of provider names
    execPc,       \* EnricherService.execute: "idle" | "gathering" | "returned" | "raised"
    ppc,          \* ppc[p]: task of provider p: "idle" | "pending" | "running" | "done" | "failed"
    invoked,      \* invoked[p]: the nodes argument of every call of provider p's apply
    applied,      \* applied[p]: what provider p's apply loop did to the nodes of its argument so far
    tree,         \* the wired PipelineRule objects: [roots, children, name]
    evalPc,       \* process_all: "idle" | "running" | "returned" | "raised"
    evalIdx,      \* number of nodes the loop of process_all has finished
    all_results,  \* process_all's all_results: study_key -> rule name -> RuleResult
    calls,        \* calls[i][n]: what rule n's evaluate did, once per call of it for node i
    reportPc,     \* JsonReporter.generate: "idle" | "done"
    reportInput,  \* the evaluation_results argument of generate
    output,       \* the dict generate returns
    run,          \* 1 in the first evaluation and report of the batch, 2 in a repeated one
    firstOutput   \* the report of the first evaluation, once a second one has begun

vars == <<records, metadata, errors, providers, execPc, ppc, invoked, applied, tree,
          evalPc, evalIdx, all_results, calls, reportPc, reportInput, output,
          run, firstOutput>>

enrichVars == <<execPc, ppc, invoked, applied>>
evalVars == <<evalPc, evalIdx, all_results, calls>>
reportVars == <<reportPc, reportInput, output>>
rerunVars == <<run, firstOutput>>
inputVars == <<records, providers, tree>>

-----------------------------------------------------------------------------
(* Bounds of the model.                                                    *)

MaxRecords == 2
MaxProviders == 2
\* nodes plus providers of one enrichment
MaxEnrichSize == 4

-----------------------------------------------------------------------------
(* Data: dicts, session nodes.                                             *)

EmptyDict == [k \in {} |-> ""]

\* dict.get(key, default)
Get(d, k, default) == IF k \in DOMAIN d THEN d[k] ELSE default

\* d[k] = v
Put(d, k, v) == [x \in DOMAIN d \cup {k} |-> IF x = k THEN v ELSE d[x]]

ParticipantIds == {"ABC123", "XYZ789"}
CaptureDates == {"20250112"}
CaptureTimes == {"0900", "1430"}

\* StandardSessionNode identity fields; every value above passes __post_init__.
SessionNodes ==
    [participant_id : ParticipantIds, capture_date : CaptureDates,
     capture_time : CaptureTimes]

\* A key that tells apart all nodes that __eq__ tells apart.
StudyKeyWithTime(node) ==
    "study_" \o node.participant_id \o "_" \o node.capture_date \o "_" \o node.capture_time

\* StandardSessionNode.study_key, and the f-string of process_all and generate.
StudyKey(node) == "study_" \o node.participant_id \o "_" \o node.capture_date

\* The first node of every batch: participants and times can be renamed.
FirstNode ==
    [participant_id |-> "ABC123", capture_date |-> "20250112", capture_time |-> "0900"]

\* All batches of at most n nodes, no two of them equal (__eq__), up to
\* renaming of participants and times.
Batches(n) ==
    {b \in UNION {[1..k -> SessionNodes] : k \in 0..n} :
        /\ b # <<>> => b[1] = FirstNode
        /\ \A i, j \in DOMAIN b : i # j => b[i] # b[j]}

\* Batches for the enricher, which reads no identity field of a node: the
\* first k nodes of one batch of distinct nodes.
DistinctNodes ==
    <<FirstNode,
      [participant_id |-> "ABC123", capture_date |-> "20250112", capture_time |-> "1430"],
      [participant_id |-> "XYZ789", capture_date |-> "20250112", capture_time |-> "0900"],
      [participant_id |-> "XYZ789", capture_date |-> "20250112", capture_time |-> "1430"]>>

PrefixBatches(n) == {SubSeq(DistinctNodes, 1, k) : k \in 0..n}

\* metadata and errors as the dataclass default factories leave them.
FreshMetadata(recs) == [i \in 1..Len(recs) |-> EmptyDict]
FreshErrors(recs) == [i \in 1..Len(recs) |-> <<>>]

-----------------------------------------------------------------------------
(* EnricherService.                                                        *)

\* Names of the configured providers; provider p writes node.metadata[name].
ProviderNames == <<"datalake", "datahub", "hive", "manifold">>

ProviderIds == 1..Len(providers)

\* What one iteration of a provider's apply loop does to its node
\* (PipelineProvider docstring): store the fetched data, or record the error.
ProviderOutcomes == {"data", "error"}

ProviderData(name) == [source |-> name]
ProviderError(name) == [source |-> name, error |-> "fetch failed"]

\* The entry _run_provider_safe appends on a provider exception.
CrashEntry(name, e) ==
    [source |-> name, error |-> "Provider failed: " \o e, type |-> "provider_crash"]

\* Descriptions of the exceptions a provider's apply may raise.
ProviderExceptions == {"connection lost"}

\* An insert at the front of the list.
ListInsertFront(lst, e) == <<e>> \o lst

\* A lost update: the write lands on the slot another append has just filled.
ListAppendLost(lst, e) ==
    IF lst = <<>> THEN <<e>> ELSE [lst EXCEPT ![Len(lst)] = e]

\* list.append (enricher.py line 90; the provider's own node.errors.append).
ListAppend(lst, e) == Append(lst, e)

\* A handler for another exception type only, which takes no provider failure.
CatchesProviderExceptionNone(e) == FALSE

\* `except Exception as e` of _run_provider_safe: does the handler take e?
CatchesProviderException(e) == e \in ProviderExceptions

\* A handler that takes the failed provider's own entries off every node
\* before it adds the crash entry.
RunProviderSafeHandlerRollback(errs, name, e) ==
    [i \in DOMAIN errs |->
        LET Keep(entry) == entry.source # name
        IN Append(SelectSeq(errs[i], Keep), CrashEntry(name, e))]

\* A handler that flags only the first node of the batch.
RunProviderSafeHandlerFirstOnly(errs, name, e) ==
    [i \in DOMAIN errs |->
        IF i = 1 THEN Append(errs[i], CrashEntry(name, e)) ELSE errs[i]]

\* The except block of _run_provider_safe: one crash entry on every node.
RunProviderSafeHandler(errs, name, e) ==
    [i \in DOMAIN errs |-> ListAppend(errs[i], CrashEntry(name, e))]

\* A gather that is done as soon as one task is done.
GatherDoneFirst(pcs) == \E p \in DOMAIN pcs : pcs[p] \in {"done", "failed"}

\* asyncio.gather(*tasks) is done when every task is done.
GatherDone(pcs) == \A p \in DOMAIN pcs : pcs[p] \in {"done", "failed"}

\* An execute that checks the provider list only.
ReturnsEarlyNoProviders(provs, nodes) == provs = <<>>

\* `if not self.providers: return nodes` and `if not nodes: return nodes`
\* (lines 53-57).
ReturnsEarly(provs, nodes) == provs = <<>> \/ nodes = <<>>

\* A task that is handed the first node of the list only.
TaskNodesFirstOnly(nodes) == IF nodes = <<>> THEN <<>> ELSE <<1>>

\* The nodes argument of _run_provider_safe(provider, nodes) and of
\* provider.apply(nodes) (lines 61 and 82): the list execute was given, as
\* references to its node objects (k is the k-th node of the batch).
TaskNodes(nodes) == [k \in 1..Len(nodes) |-> k]

\* execute, lines 53-65: the two early returns, else one task per provider.
Execute ==
    /\ execPc = "idle"
    /\ IF ReturnsEarly(providers, records)
       THEN /\ execPc' = "returned"
            /\ UNCHANGED ppc
       ELSE /\ execPc' = "gathering"
            /\ ppc' = [p \in ProviderIds |-> "pending"]
    /\ UNCHANGED <<metadata, errors, invoked, applied, inputVars, evalVars, reportVars, rerunVars>>

\* The event loop runs a task for the first time: _run_provider_safe enters
\* its try block and awaits provider.apply(nodes).
ProviderStart(p) ==
    /\ execPc \in {"gathering", "raised"}
    /\ ppc[p] = "pending"
    /\ ppc' = [ppc EXCEPT ![p] = "running"]
    /\ invoked' = [invoked EXCEPT ![p] = Append(@, TaskNodes(records))]
    /\ UNCHANGED <<metadata, errors, applied, execPc, inputVars, evalVars, reportVars, rerunVars>>

\* The nodes argument of the call of provider p's apply that is running.
ApplyNodes(p) == invoked[p][Len(invoked[p])]

\* One iteration of apply's loop over its nodes, between two awaits.
ProviderApplyNode(p) ==
    /\ ppc[p] = "running"
    /\ Len(applied[p]) < Len(ApplyNodes(p))
    /\ LET i == ApplyNodes(p)[Len(applied[p]) + 1]
           name == providers[p]
       IN \E o \in ProviderOutcomes :
            /\ applied' = [applied EXCEPT ![p] = Append(@, o)]
            /\ IF o = "data"
               THEN /\ metadata' = [metadata EXCEPT ![i] = Put(@, name, ProviderData(name))]
                    /\ UNCHANGED errors
               ELSE /\ errors' = [errors EXCEPT ![i] = ListAppend(@, ProviderError(name))]
                    /\ UNCHANGED metadata
    /\ UNCHANGED <<execPc, ppc, invoked, inputVars, evalVars, reportVars, rerunVars>>

\* apply returns after its loop; _run_provider_safe logs and returns.
ProviderComplete(p) ==
    /\ ppc[p] = "running"
    /\ Len(applied[p]) = Len(ApplyNodes(p))
    /\ ppc' = [ppc EXCEPT ![p] = "done"]
    /\ UNCHANGED <<metadata, errors, invoked, applied, execPc, inputVars, evalVars, reportVars, rerunVars>>

\* apply raises e; the except block runs without awaiting, so it is one step.
\* An exception the handler does not take leaves the task and gather re-raises
\* it in execute while the other tasks keep running.
ProviderFail(p) ==
    /\ ppc[p] = "running"
    /\ \E e \in ProviderExceptions :
         IF CatchesProviderException(e)
         THEN /\ errors' = RunProviderSafeHandler(errors, providers[p], e)
              /\ UNCHANGED execPc
         ELSE /\ execPc' = "raised"
              /\ UNCHANGED errors
    /\ ppc' = [ppc EXCEPT ![p] = "failed"]
    /\ UNCHANGED <<metadata, invoked, applied, inputVars, evalVars, reportVars, rerunVars>>

\* await asyncio.gather(*tasks) resumes; execute returns nodes.
GatherReturn ==
    /\ execPc = "gathering"
    /\ GatherDone(ppc)
    /\ execPc' = "returned"
    /\ UNCHANGED <<metadata, errors, ppc, invoked, applied, inputVars, evalVars, reportVars, rerunVars>>

NextEnrich ==
    \/ Execute
    \/ \E p \in ProviderIds : ProviderStart(p)
    \/ \E p \in ProviderIds : ProviderApplyNode(p)
    \/ \E p \in ProviderIds : ProviderComplete(p)
    \/ \E p \in ProviderIds : ProviderFail(p)
    \/ GatherReturn

-----------------------------------------------------------------------------
(* Rule trees.  A PipelineRule object is a number n; tree.name[n] is its   *)
(* name property, tree.children[n] its children list and tree.roots the    *)
(* root_rules list handed to the evaluator and the reporter.               *)

NoRoots == [roots |-> <<>>, children |-> <<>>, name |-> <<>>]

\* A -> B
Pair == [roots |-> <<1>>, children |-> <<<<2>>, <<>>>>, name |-> <<"A", "B">>]

\* A -> B -> C
Chain == [roots |-> <<1>>, children |-> <<<<2>>, <<3>>, <<>>>>, name |-> <<"A", "B", "C">>]

\* A -> [B, C]
Branch == [roots |-> <<1>>, children |-> <<<<2, 3>>, <<>>, <<>>>>, name |-> <<"A", "B", "C">>]

\* two roots: A -> B and C
TwoRoots == [roots |-> <<1, 3>>, children |-> <<<<2>>, <<>>, <<>>>>, name |-> <<"A", "B", "C">>]

\* two roots: A -> B and a second rule named B
SharedChildName ==
    [roots |-> <<1, 3>>, children |-> <<<<2>>, <<>>, <<>>>>, name |-> <<"A", "B", "B">>]

\* two roots: A -> B and a second rule named A
SharedRootName ==
    [roots |-> <<1, 3>>, children |-> <<<<2>>, <<>>, <<>>>>, name |-> <<"A", "B", "A">>]

\* Scheduled -> Executed -> RawData -> [Inference, Reporting]
Pipeline ==
    [roots |-> <<1>>,
     children |-> <<<<2>>, <<3>>, <<4, 5>>, <<>>, <<>>>>,
     name |-> <<"Scheduled", "Executed", "RawData", "Inference", "Reporting">>]

Trees == {NoRoots, Pair, Chain, Branch, TwoRoots, SharedChildName, SharedRootName}

Rules(t) == DOMAIN t.name

-----------------------------------------------------------------------------
(* TreeEvaluatorService.                                                   *)

\* What a rule's evaluate does for a node: return a passing or a failing
\* RuleResult, or raise.
RuleBehaviours == {"pass", "fail", "raise"}

\* str(e) of the exception a rule raises.
RuleExceptionText == "boom"

\* A rule that passes and returns metadata with the keys "passed" and
\* "message" next to a key of its own.
AnnotatingBehaviours == RuleBehaviours \cup {"annotate"}

AnnotatedMetadata == [passed |-> FALSE, message |-> "see detail", detail |-> "late"]

\* The RuleResult a rule returns; the rule reports a name of its own.
RuleEvaluate(b) ==
    [passed |-> b \in {"pass", "annotate"},
     name |-> "self_reported",
     message |-> IF b \in {"pass", "annotate"} THEN "" ELSE "check failed",
     metadata |-> IF b = "annotate" THEN AnnotatedMetadata ELSE EmptyDict]

\* The outcome keeps the name the rule reported.
SetNameKept(res, rule_name) == res

\* res.name = rule.name (line 91)
SetName(res, rule_name) == [res EXCEPT !.name = rule_name]

\* evaluator.py lines 81-86
BlockedResult(rule_name) ==
    [passed |-> FALSE,
     name |-> rule_name,
     message |-> "Blocked by parent failure",
     metadata |-> [status |-> "BLOCKED"]]

\* evaluator.py lines 95-100
ExceptionResult(rule_name, e) ==
    [passed |-> FALSE,
     name |-> rule_name,
     message |-> "Rule Exception: " \o e,
     metadata |-> [status |-> "ERROR", exception |-> e]]

\* A handler for another exception type only, which takes no rule failure.
CatchesRuleExceptionNone(e) == FALSE

\* `except Exception as e` of _evaluate_recursive: does the handler take e?
CatchesRuleException(e) == e = RuleExceptionText

\* Children that are evaluated whatever their parent did.
ChildParentPassedAlways(res) == TRUE

\* A block that stops after one level: a BLOCKED rule lets its children run.
ChildParentPassedOneLevel(res) ==
    res.passed \/ ("status" \in DOMAIN res.metadata /\ res.metadata.status = "BLOCKED")

\* parent_passed handed to the children (line 108).
ChildParentPassed(res) == res.passed

\* A store that keeps the entry a name already has.
StoreResultKeepFirst(results, rule_name, res) ==
    IF rule_name \in DOMAIN results THEN results ELSE Put(results, rule_name, res)

\* results[rule.name] = res (line 103)
StoreResult(results, rule_name, res) == Put(results, rule_name, res)

\* A walk that evaluates every rule, whatever its parent did.
BlockedByParentNever(parent_passed) == FALSE

\* `if not parent_passed` (line 79)
BlockedByParent(parent_passed) == ~parent_passed

\* _evaluate_recursive(rule, node, results, parent_passed), where node is
\* represented by beh, what each rule does for it.  st is [results, calls,
\* raised]: the results dict, the calls of evaluate, and whether an exception
\* is propagating.
RECURSIVE EvaluateRecursive(_, _, _, _, _)
RECURSIVE EvaluateChildren(_, _, _, _, _, _)

EvaluateRecursive(t, rule, beh, st, parent_passed) ==
    LET rule_name == t.name[rule]
        blocked == BlockedByParent(parent_passed)
        raises == ~blocked /\ beh[rule] = "raise"
        res == IF blocked THEN BlockedResult(rule_name)
               ELSE IF raises THEN ExceptionResult(rule_name, RuleExceptionText)
               ELSE SetName(RuleEvaluate(beh[rule]), rule_name)
        called == IF blocked
                  THEN st.calls
                  ELSE [st.calls EXCEPT ![rule] = Append(@, beh[rule])]
    IN IF raises /\ ~CatchesRuleException(RuleExceptionText)
       THEN [st EXCEPT !.calls = called, !.raised = TRUE]
       ELSE EvaluateChildren(t, t.children[rule], 1, beh,
                [st EXCEPT !.calls = called,
                           !.results = StoreResult(st.results, rule_name, res)],
                ChildParentPassed(res))

\* A walk that does not descend below a rule that did not pass.
RECURSIVE EvaluateChildrenSkipBlocked(_, _, _, _, _, _)
EvaluateChildrenSkipBlocked(t, kids, k, beh, st, parent_passed) ==
    IF k > Len(kids) \/ st.raised \/ ~parent_passed
    THEN st
    ELSE EvaluateChildrenSkipBlocked(t, kids, k + 1, beh,
             EvaluateRecursive(t, kids[k], beh, st, parent_passed), parent_passed)

\* for child in rule.children (lines 107-108), from the k-th child on.
EvaluateChildren(t, kids, k, beh, st, parent_passed) ==
    IF k > Len(kids) \/ st.raised
    THEN st
    ELSE EvaluateChildren(t, kids, k + 1, beh,
             EvaluateRecursive(t, kids[k], beh, st, parent_passed), parent_passed)

\* The body of the loop of process_all for one node (lines 52-54): a fresh
\* node_results dict, then every root with parent_passed=True.
EvaluateRoots(t, beh) ==
    EvaluateChildren(t, t.roots, 1, beh,
        [results |-> EmptyDict, calls |-> [n \in Rules(t) |-> <<>>], raised |-> FALSE],
        TRUE)

\* process_all is called with the enriched nodes; all_results = {} (line 47).
ProcessAllBegin ==
    /\ execPc = "returned"
    /\ evalPc = "idle"
    /\ evalPc' = "running"
    /\ all_results' = EmptyDict
    /\ UNCHANGED <<metadata, errors, enrichVars, inputVars, evalIdx, calls,
                   reportVars, rerunVars>>

\* Deterministic rules: a rule that was called for a node does, when called
\* for it again, what it did then.
SameAsBefore(beh, before) ==
    \A n \in DOMAIN before : before[n] # <<>> => beh[n] = before[n][1]

\* One iteration of `for node in nodes` (lines 49-56), the rules doing one of
\* behaviours.
EvaluateNodeOf(behaviours) ==
    /\ evalPc = "running"
    /\ evalIdx < Len(records)
    /\ LET i == evalIdx + 1
       IN \E beh \in [Rules(tree) -> behaviours] :
            /\ run = 2 => SameAsBefore(beh, calls[i])
            /\ LET st == EvaluateRoots(tree, beh)
               IN IF st.raised
                  THEN /\ evalPc' = "raised"
                       /\ UNCHANGED <<evalIdx, all_results>>
                       /\ calls' = [calls EXCEPT ![i] = st.calls]
                  ELSE /\ all_results' = Put(all_results, StudyKey(records[i]), st.results)
                       /\ evalIdx' = i
                       /\ calls' = [calls EXCEPT ![i] = st.calls]
                       /\ UNCHANGED evalPc
    /\ UNCHANGED <<metadata, errors, enrichVars, inputVars, reportVars, rerunVars>>

\* The rules pass, fail or raise.
EvaluateNode == EvaluateNodeOf(RuleBehaviours)

\* return all_results (line 58)
ProcessAllReturn ==
    /\ evalPc = "running"
    /\ evalIdx = Len(records)
    /\ evalPc' = "returned"
    /\ UNCHANGED <<metadata, errors, enrichVars, inputVars, evalIdx, all_results,
                   calls, reportVars, rerunVars>>

-----------------------------------------------------------------------------
(* JsonReporter.                                                           *)

\* A dict display with **res.metadata first: the outcome's passed and
\* message replace equal keys of the metadata.
PipelineStepsOutcomeLast(node_results) ==
    [rule_name \in DOMAIN node_results |->
        LET res == node_results[rule_name]
        IN [passed |-> res.passed, message |-> res.message] @@ res.metadata]

\* steps[rule_name] = {"passed": ..., "message": ..., **res.metadata}
\* (lines 72-77): a key of res.metadata replaces an earlier equal key.
PipelineSteps(node_results) ==
    [rule_name \in DOMAIN node_results |->
        LET res == node_results[rule_name]
        IN res.metadata @@ [passed |-> res.passed, message |-> res.message]]

\* node_data of the i-th node (lines 58-79).
NodeData(i, evaluation_results) ==
    [date |-> records[i].capture_date,
     time |-> records[i].capture_time,
     participant_id |-> records[i].participant_id,
     datalake |-> Get(metadata[i], "datalake", EmptyDict),
     data_hub |-> Get(metadata[i], "datahub", EmptyDict),
     errors |-> errors[i],
     pipeline_steps |->
        PipelineSteps(Get(evaluation_results, StudyKey(records[i]), EmptyDict))]

\* for node in nodes: output["results"][study_key] = node_data, from node i on.
RECURSIVE GenerateResults(_, _, _)
GenerateResults(i, results, evaluation_results) ==
    IF i > Len(records)
    THEN results
    ELSE GenerateResults(i + 1,
             Put(results, StudyKey(records[i]), NodeData(i, evaluation_results)),
             evaluation_results)

\* res_map.get(name) and res_map[name].passed
Passed(res_map, rule_name) == rule_name \in DOMAIN res_map /\ res_map[rule_name].passed

\* A count of the res_maps in which the parent passed, whatever the child did.
FlowCountParentOnly(res, parent_name, child_name) ==
    Cardinality({k \in DOMAIN res : Passed(res[k], parent_name)})

\* count of lines 111-122: the res_maps in which parent and child both passed.
FlowCount(res, parent_name, child_name) ==
    Cardinality({k \in DOMAIN res :
                    Passed(res[k], parent_name) /\ Passed(res[k], child_name)})

\* A count of the res_maps, whatever their outcome for the root.
RootPassedEntered(res, root_name) == Cardinality(DOMAIN res)

\* root_passed of lines 137-141.
RootPassed(res, root_name) ==
    Cardinality({k \in DOMAIN res : Passed(res[k], root_name)})

Link(source, target, value) == [source |-> source, target |-> target, value |-> value]

\* links.append(link) in place of the insert at index 0.
InsertStartAtEnd(links, link) == Append(links, link)

\* links.insert(0, link) (line 143)
InsertStart(links, link) == <<link>> \o links

\* traverse(rule) of _calculate_flows, from the k-th child of rule on.
RECURSIVE Traverse(_, _, _, _, _)
Traverse(t, rule, k, links, res) ==
    IF k > Len(t.children[rule])
    THEN links
    ELSE LET child == t.children[rule][k]
             count == FlowCount(res, t.name[rule], t.name[child])
             linked == IF count > 0
                       THEN Append(links, Link(t.name[rule], t.name[child], count))
                       ELSE links
         IN Traverse(t, rule, k + 1, Traverse(t, child, 1, linked, res), res)

\* for root in roots (lines 135-151), from the k-th root on.
RECURSIVE CalculateFlows(_, _, _, _)
CalculateFlows(t, k, links, res) ==
    IF k > Len(t.roots)
    THEN links
    ELSE LET root == t.roots[k]
             root_passed == RootPassed(res, t.name[root])
             started == IF root_passed > 0
                        THEN InsertStart(links, Link("_start", t.name[root], root_passed))
                        ELSE links
         IN CalculateFlows(t, k + 1, Traverse(t, root, 1, started, res), res)

\* The links an earlier call of generate returned.
EarlierLinks ==
    IF "flow_summary" \in DOMAIN firstOutput
    THEN firstOutput.flow_summary.sankey_links
    ELSE <<>>

\* One list that every call of _calculate_flows appends to.
NewLinksShared(earlier) == earlier

\* links: List[Dict[str, Any]] = [] (line 107): a new list in every call.
NewLinks(earlier) == <<>>

\* A lookup by dict.pop, which takes the entry out of the dict.
AfterGetPopped(d, k) == [x \in DOMAIN d \ {k} |-> d[x]]

\* The dict after evaluation_results.get(study_key, {}) (line 71): get reads.
AfterGet(d, k) == d

\* The evaluation_results argument after the loop over the nodes from the
\* i-th on has looked up every node's study key.
RECURSIVE ArgumentAfter(_, _)
ArgumentAfter(i, ev_results) ==
    IF i > Len(records)
    THEN ev_results
    ELSE ArgumentAfter(i + 1, AfterGet(ev_results, StudyKey(records[i])))

\* generate(nodes, ev_results, root_rules)
GenerateWith(ev_results) ==
    /\ evalPc = "returned"
    /\ reportPc = "idle"
    /\ reportPc' = "done"
    /\ reportInput' = ArgumentAfter(1, ev_results)
    /\ LET results == GenerateResults(1, EmptyDict, ev_results)
       IN output' =
            IF tree.roots # <<>>
            THEN [results |-> results,
                  flow_summary |->
                    [sankey_links |->
                        CalculateFlows(tree, 1, NewLinks(EarlierLinks), ev_results)]]
            ELSE [results |-> results]
    /\ UNCHANGED <<metadata, errors, enrichVars, inputVars, evalVars, rerunVars>>

\* run_monitor hands generate what process_all returned (lines 86-95).
Generate == GenerateWith(all_results)

\* A caller hands generate the outcome map of an evaluation that covered
\* only some of the study keys of the batch.
GeneratePartial ==
    \E keys \in SUBSET DOMAIN all_results :
        /\ keys # DOMAIN all_results
        /\ GenerateWith([k \in keys |-> all_results[k]])

\* The caller evaluates and reports the same enriched nodes against the same
\* rule trees once more: new calls of process_all and generate.
RunAgain ==
    /\ reportPc = "done"
    /\ run = 1
    /\ run' = 2
    /\ firstOutput' = output
    /\ evalPc' = "idle"
    /\ evalIdx' = 0
    /\ reportPc' = "idle"
    /\ UNCHANGED <<metadata, errors, enrichVars, inputVars, all_results, calls,
                   reportInput, output>>

-----------------------------------------------------------------------------
(* Specifications.                                                         *)

\* The state before run_monitor calls execute, for a batch, a provider list
\* and a rule forest.
InitWith(batches, providerLists, trees) ==
    /\ records \in batches
    /\ providers \in providerLists
    /\ tree \in trees
    /\ metadata = FreshMetadata(records)
    /\ errors = FreshErrors(records)
    /\ execPc = "idle"
    /\ ppc = [p \in ProviderIds |-> "idle"]
    /\ invoked = [p \in ProviderIds |-> <<>>]
    /\ applied = [p \in ProviderIds |-> <<>>]
    /\ evalPc = "idle"
    /\ evalIdx = 0
    /\ all_results = EmptyDict
    /\ calls = [i \in 1..Len(records) |-> [n \in Rules(tree) |-> <<>>]]
    /\ reportPc = "idle"
    /\ reportInput = EmptyDict
    /\ output = EmptyDict
    /\ run = 1
    /\ firstOutput = EmptyDict

ProviderLists(n) == {SubSeq(ProviderNames, 1, k) : k \in 0..n}

\* Enrichment of any batch by any provider list.
InitEnrich ==
    /\ InitWith(PrefixBatches(MaxRecords), ProviderLists(MaxProviders), {NoRoots})
    /\ Len(records) + Len(providers) <= MaxEnrichSize

SpecEnrich == InitEnrich /\ [][NextEnrich]_vars

\* Evaluation and reporting of any batch against any forest, no providers.
InitEval == InitWith(Batches(MaxRecords), {<<>>}, Trees)

NextEval ==
    \/ Execute
    \/ ProcessAllBegin
    \/ EvaluateNode
    \/ ProcessAllReturn
    \/ Generate

SpecEval == InitEval /\ [][NextEval]_vars

\* The one node of the five-rule example.
ExampleRecord ==
    [participant_id |-> "ABC123", capture_date |-> "20250112", capture_time |-> "1430"]

\* Two nodes with one study key, and two nodes with two.
OneKey == {<<FirstNode, DistinctNodes[2]>>}

TwoKeys == {<<FirstNode, DistinctNodes[3]>>}

\* Evaluation and reporting, done twice over the same nodes and forest: the
\* one node of the example against the five-rule tree, and two nodes against
\* a chain and against two roots.
InitRerun ==
    \/ InitWith({<<ExampleRecord>>}, {<<>>}, {Pipeline})
    \/ InitWith(OneKey \cup TwoKeys, {<<>>}, {Pair, TwoRoots})

NextRerun ==
    \/ NextEval
    \/ RunAgain

SpecRerun == InitRerun /\ [][NextRerun]_vars

\* Evaluation by rules that may return metadata of their own, and a report
\* from the outcome map of the evaluation or from a part of it.
InitReport == InitWith({<<>>, <<FirstNode>>} \cup OneKey \cup TwoKeys, {<<>>}, {Pair, TwoRoots})

NextReport ==
    \/ Execute
    \/ ProcessAllBegin
    \/ EvaluateNodeOf(AnnotatingBehaviours)
    \/ ProcessAllReturn
    \/ Generate
    \/ GeneratePartial

SpecReport == InitReport /\ [][NextReport]_vars

\* run_monitor: enrich, then evaluate, then report.  The runs are those of
\* up to two providers over at most one node and of at most one provider over
\* up to two nodes with one study key, each against a forest with siblings or
\* with two roots, and those of two providers over two nodes against A -> B.
OneNode == {<<>>, <<FirstNode>>}

TwoNodes == {<<FirstNode, DistinctNodes[2]>>}

OneProvider == {<<>>, <<"datalake">>}

TwoProviders == {<<"datalake", "datahub">>}

InitRun ==
    \/ InitWith(OneNode, OneProvider \cup TwoProviders, {Branch, TwoRoots})
    \/ InitWith(TwoNodes, OneProvider, {Branch, TwoRoots})
    \/ InitWith(TwoNodes, TwoProviders, {Pair})

NextRun ==
    \/ NextEnrich
    \/ ProcessAllBegin
    \/ EvaluateNode
    \/ ProcessAllReturn
    \/ Generate

\* The event loop keeps running the tasks that can run and every provider's
\* apply completes or fails: a step that can be taken is taken.
SpecRun == InitRun /\ [][NextRun]_vars /\ WF_vars(NextRun)

-----------------------------------------------------------------------------
(* Properties of the enricher.                                             *)

IsCrashEntry(entry, name) ==
    /\ entry.source = name
    /\ "type" \in DOMAIN entry
    /\ entry.type = "provider_crash"

IsOwnEntry(entry, name) == entry.source = name /\ "type" \notin DOMAIN entry

CrashCount(i, name) ==
    Cardinality({k \in 1..Len(errors[i]) : IsCrashEntry(errors[i][k], name)})

OwnCount(i, name) ==
    Cardinality({k \in 1..Len(errors[i]) : IsOwnEntry(errors[i][k], name)})

Finished(p) == ppc[p] \in {"done", "failed"}

\* Provider q handled node i and appended its own error entry to it.
AppendedOwn(q, i) == i <= Len(applied[q]) /\ applied[q][i] = "error"

\* Everything provider q did to the batch is on the nodes.
EffectsPresent(q) ==
    \A i \in 1..Len(applied[q]) :
        IF applied[q][i] = "data"
        THEN /\ providers[q] \in DOMAIN metadata[i]
             /\ metadata[i][providers[q]] = ProviderData(providers[q])
        ELSE OwnCount(i, providers[q]) = 1

\* C4 (fan-out isolation): a failed provider leaves exactly one provider_crash
\* entry with its name on every node of the batch; when execute has returned,
\* every other provider has run to its end and all it wrote (metadata and
\* error entries) is on the nodes; and execute never raises.
C4_FanOutIsolation ==
    /\ execPc # "raised"
    /\ \A p \in ProviderIds :
         ppc[p] = "failed" =>
            /\ \A i \in 1..Len(records) : CrashCount(i, providers[p]) = 1
            /\ execPc = "returned" =>
                 \A q \in ProviderIds \ {p} :
                    /\ Finished(q)
                    /\ ppc[q] = "done" => Len(applied[q]) = Len(records)
                    /\ EffectsPresent(q)

C4_Witness ==
    /\ execPc = "returned"
    /\ Len(records) = 2
    /\ \E p, q \in ProviderIds :
         /\ ppc[p] = "failed"
         /\ ppc[q] = "done"
         /\ applied[q] = <<"data", "error">>
         /\ applied[p] = <<"error">>

\* C8 as stated (enrichment barrier): whenever execute has returned, every
\* configured provider has completed or failed.
C8_BarrierAlways == execPc = "returned" => \A p \in ProviderIds : Finished(p)

\* C8, amended: for a non-empty batch, whenever execute has returned every
\* configured provider has completed or failed, so a provider that never
\* finishes keeps execute from returning; for an empty batch execute returns
\* at once and no provider is ever started.
C8_Barrier ==
    /\ (execPc = "returned" /\ records # <<>>) => \A p \in ProviderIds : Finished(p)
    /\ records = <<>> => \A p \in ProviderIds : ppc[p] = "idle"

C8_Witness ==
    /\ execPc = "returned"
    /\ records # <<>>
    /\ \E p, q \in ProviderIds : ppc[p] = "done" /\ ppc[q] = "failed"

\* C9 (no lost error updates): when execute has returned, each node's errors
\* list holds exactly the entries that were appended to it, each once and
\* intact: the own entry of every provider that recorded an error for the
\* node and the crash entry of every provider that failed, and nothing else.
C9_NoLostErrorUpdates ==
    execPc = "returned" =>
        \A i \in 1..Len(records) :
            /\ \A q \in ProviderIds :
                 /\ OwnCount(i, providers[q]) = IF AppendedOwn(q, i) THEN 1 ELSE 0
                 /\ CrashCount(i, providers[q]) = IF ppc[q] = "failed" THEN 1 ELSE 0
            /\ Len(errors[i]) =
                 Cardinality({q \in ProviderIds : AppendedOwn(q, i)})
                 + Cardinality({q \in ProviderIds : ppc[q] = "failed"})
            /\ \A k \in 1..Len(errors[i]) :
                 \E q \in ProviderIds :
                    \/ errors[i][k] = ProviderError(providers[q])
                    \/ \E e \in ProviderExceptions :
                         errors[i][k] = CrashEntry(providers[q], e)

C9_Witness ==
    /\ execPc = "returned"
    /\ \E i \in 1..Len(records) :
         /\ Len(errors[i]) = 4
         /\ \A q \in ProviderIds : AppendedOwn(q, i) /\ ppc[q] = "failed"
         /\ errors[i][1].source # errors[i][2].source

\* The whole batch, as references to its node objects in list order.
FullBatch == [k \in 1..Len(records) |-> k]

\* C13 as stated (one invocation with the full batch): when execute has
\* returned, every configured provider's apply has been called exactly once,
\* and that call received the full batch.
C13_InvokedOnceAlways ==
    execPc = "returned" => \A p \in ProviderIds : invoked[p] = <<FullBatch>>

\* C13, amended: no provider's apply is ever called more than once, and every
\* call receives the full batch (the node objects every other provider
\* receives), never a part of it; for a non-empty batch every configured
\* provider's apply has been called exactly once when execute has returned;
\* for an empty batch execute returns without calling any provider.
C13_InvokedOnce ==
    /\ \A p \in ProviderIds :
         /\ Len(invoked[p]) <= 1
         /\ \A k \in 1..Len(invoked[p]) : invoked[p][k] = FullBatch
    /\ (execPc = "returned" /\ records # <<>>) =>
         \A p \in ProviderIds : invoked[p] = <<FullBatch>>
    /\ records = <<>> => \A p \in ProviderIds : invoked[p] = <<>>

C13_Witness ==
    /\ execPc = "returned"
    /\ Len(records) = 2
    /\ Len(providers) = 2
    /\ \A p \in ProviderIds : invoked[p] = <<<<1, 2>>>>
    /\ ppc[1] = "failed" /\ ppc[2] = "done"

\* C15 (empty-input frame): when the provider list or the batch is empty,
\* the step execute takes returns the given list at once, and no step calls a
\* provider or changes the metadata or the errors of a node.
C15_EmptyInputFrame ==
    [][(providers = <<>> \/ records = <<>>) =>
          /\ execPc = "idle" => execPc' = "returned"
          /\ records' = records
          /\ invoked' = invoked
          /\ ppc' = ppc
          /\ metadata' = metadata
          /\ errors' = errors]_vars

C15_Witness ==
    /\ execPc = "returned"
    /\ records = <<>>
    /\ Len(providers) = 2
    /\ \A p \in ProviderIds : invoked[p] = <<>> /\ ppc[p] = "idle"

\* b is a followed by zero or more entries.
IsExtension(a, b) == Len(a) <= Len(b) /\ SubSeq(b, 1, Len(a)) = a

\* C20 (errors are append-only): in every step of the enrichment, under every
\* interleaving of the providers, each node's errors list after the step is
\* its list before the step followed by zero or more new entries (nothing is
\* removed or reordered); and on every node the crash entry the engine wrote
\* for a provider comes after every entry that provider appended itself.
C20_ErrorsAppendOnly ==
    /\ [][\A i \in 1..Len(records) : IsExtension(errors[i], errors'[i])]_vars
    /\ [](\A i \in 1..Len(records) : \A p \in ProviderIds :
            \A k, l \in 1..Len(errors[i]) :
                (IsCrashEntry(errors[i][k], providers[p])
                    /\ IsOwnEntry(errors[i][l], providers[p])) => l < k)

C20_Witness ==
    /\ execPc = "returned"
    /\ \E i \in 1..Len(records) : \E p, q \in ProviderIds :
         /\ p # q
         /\ Len(errors[i]) = 3
         /\ IsOwnEntry(errors[i][1], providers[p])
         /\ IsOwnEntry(errors[i][2], providers[q])
         /\ IsCrashEntry(errors[i][3], providers[p])

\* C24 (no rollback): once a provider has failed, part-way through apply or
\* not, and still after execute has returned, every node it handled before
\* failing carries what the provider wrote to it (its metadata entry or its
\* own error entry) and every node of the batch carries the provider's crash
\* entry: the engine adds the crash entry and undoes nothing.
C24_NoRollback ==
    \A p \in ProviderIds :
        ppc[p] = "failed" =>
            /\ EffectsPresent(p)
            /\ \A i \in 1..Len(records) : CrashCount(i, providers[p]) = 1

C24_Witness ==
    /\ execPc = "returned"
    /\ Len(records) = 2
    /\ \E p \in ProviderIds :
         /\ ppc[p] = "failed"
         /\ applied[p] = <<"data">>
         /\ metadata[1][providers[p]] = ProviderData(providers[p])
         /\ CrashCount(1, providers[p]) = 1
         /\ providers[p] \notin DOMAIN metadata[2]
    /\ \E q \in ProviderIds :
         /\ ppc[q] = "failed"
         /\ applied[q] = <<"error">>
         /\ OwnCount(1, providers[q]) = 1
         /\ CrashCount(1, providers[q]) = 1

-----------------------------------------------------------------------------
(* Properties of the evaluator.                                            *)

ChildSet(t, n) == {t.children[n][k] : k \in 1..Len(t.children[n])}

RECURSIVE Descendants(_, _)
Descendants(t, n) == ChildSet(t, n) \cup UNION {Descendants(t, c) : c \in ChildSet(t, n)}

RootSet(t) == {t.roots[k] : k \in 1..Len(t.roots)}

\* The rules reachable from a supplied root.
Reachable(t) == RootSet(t) \cup UNION {Descendants(t, r) : r \in RootSet(t)}

\* The rules in the order the evaluator visits them: roots in list order,
\* each tree in pre-order.
RECURSIVE PreOrder(_, _)
PreOrder(t, rules) ==
    IF rules = <<>>
    THEN <<>>
    ELSE <<Head(rules)>> \o PreOrder(t, t.children[Head(rules)]) \o PreOrder(t, Tail(rules))

VisitOrder(t) == PreOrder(t, t.roots)

\* The rules whose name no rule visited later carries: what such a rule
\* stores under its name stays.
LastOfName(t) ==
    LET order == VisitOrder(t)
    IN {order[k] : k \in {k \in 1..Len(order) :
                            \A l \in (k + 1)..Len(order) :
                                t.name[order[l]] # t.name[order[k]]}}

\* No later node of the batch has the study key of node i.
LastWithKey(i) ==
    \A j \in (i + 1)..Len(records) : StudyKey(records[j]) # StudyKey(records[i])

\* The stored outcome for node i of the batch and rule n.
Stored(i, n) == all_results[StudyKey(records[i])][tree.name[n]]

Raised(i, n) == \E k \in 1..Len(calls[i][n]) : calls[i][n][k] = "raise"

\* C1 as stated (propagation law): after process_all, for every node of the
\* batch and every rule whose stored outcome has passed = false, every
\* descendant of the rule has a stored outcome with passed = false and
\* status BLOCKED.
C1_PropagationAllRules ==
    evalPc = "returned" =>
        \A i \in 1..Len(records) : \A n \in Reachable(tree) :
            ~Stored(i, n).passed =>
                \A d \in Descendants(tree, n) :
                    Stored(i, d) = BlockedResult(tree.name[d])

\* C1, amended: the same, for the rules and descendants whose outcome is the
\* one that stays stored under their name, i.e. whose name no rule visited
\* later (in a later root) carries.
C1_Propagation ==
    evalPc = "returned" =>
        LET last == LastOfName(tree)
        IN \A i \in 1..Len(records) : \A n \in last :
              ~Stored(i, n).passed =>
                  \A d \in Descendants(tree, n) \cap last :
                      Stored(i, d) = BlockedResult(tree.name[d])

C1_Witness ==
    /\ evalPc = "returned"
    /\ tree = Chain
    /\ Len(records) = 2
    /\ calls[1][1] = <<"fail">>
    /\ calls[2] = [n \in Rules(tree) |-> IF n = 3 THEN <<>> ELSE IF n = 2 THEN <<"raise">> ELSE <<"pass">>]
    /\ Stored(2, 3) = BlockedResult("C")

\* C2 (completeness): after process_all the outcome map has an entry for the
\* study key of every node of the batch and for no other key, and under each
\* the rule names of exactly the rules reachable from a root, each with one
\* outcome carrying that name that is evaluated, BLOCKED or ERROR.
C2_Completeness ==
    evalPc = "returned" =>
        /\ DOMAIN all_results = {StudyKey(records[i]) : i \in 1..Len(records)}
        /\ \A i \in 1..Len(records) :
             /\ DOMAIN all_results[StudyKey(records[i])]
                  = {tree.name[n] : n \in Reachable(tree)}
             /\ \A n \in Reachable(tree) :
                  /\ Stored(i, n).name = tree.name[n]
                  /\ \/ Stored(i, n).metadata = EmptyDict
                     \/ Stored(i, n) = BlockedResult(tree.name[n])
                     \/ Stored(i, n) = ExceptionResult(tree.name[n], RuleExceptionText)

C2_Witness ==
    /\ evalPc = "returned"
    /\ tree = Branch
    /\ Len(records) = 2
    /\ StudyKey(records[1]) # StudyKey(records[2])
    /\ Stored(1, 1) = ExceptionResult("A", RuleExceptionText)
    /\ Stored(1, 3) = BlockedResult("C")
    /\ Stored(2, 2).passed /\ ~Stored(2, 3).passed

\* Rules with the same parent as n, and the roots when n is a root.
Siblings(t, n) ==
    IF n \in RootSet(t)
    THEN RootSet(t) \ {n}
    ELSE {s \in Rules(t) \ {n} : \E m \in Rules(t) : {n, s} \subseteq ChildSet(t, m)}

\* Evaluation went on after rule n raised for node i: the siblings of n and
\* all roots were still called for node i, and the roots for every later node.
ContinuedAfter(i, n) ==
    /\ \A s \in Siblings(tree, n) \cup RootSet(tree) : Len(calls[i][s]) = 1
    /\ \A j \in (i + 1)..Len(records) : \A r \in RootSet(tree) : Len(calls[j][r]) = 1

\* C3 as stated (exception isolation): process_all never raises, and when a
\* rule's evaluate raised for a node, the stored outcome for that node and
\* rule is the ERROR outcome carrying the failure description, every child of
\* the rule is stored as BLOCKED, and evaluation continued.
C3_ExceptionIsolationStored ==
    /\ evalPc # "raised"
    /\ evalPc = "returned" =>
         \A i \in 1..Len(records) : \A n \in Reachable(tree) :
            Raised(i, n) =>
                /\ Stored(i, n) = ExceptionResult(tree.name[n], RuleExceptionText)
                /\ \A c \in ChildSet(tree, n) : Stored(i, c) = BlockedResult(tree.name[c])
                /\ ContinuedAfter(i, n)

\* C3, amended: process_all never raises, and when a rule's evaluate raised
\* for a node, the children of the rule were not called and evaluation
\* continued; the ERROR outcome of the rule and the BLOCKED outcomes of its
\* children are what the returned map holds for that node, except under a name
\* that a rule visited later also carries and except when a later node of the
\* batch has the same study key (the later outcome replaces the entry).
C3_ExceptionIsolation ==
    /\ evalPc # "raised"
    /\ evalPc = "returned" =>
         LET last == LastOfName(tree)
         IN \A i \in 1..Len(records) : \A n \in Reachable(tree) :
               Raised(i, n) =>
                   /\ (LastWithKey(i) /\ n \in last) =>
                        Stored(i, n) = ExceptionResult(tree.name[n], RuleExceptionText)
                   /\ \A c \in ChildSet(tree, n) :
                        /\ calls[i][c] = <<>>
                        /\ (LastWithKey(i) /\ c \in last) =>
                             Stored(i, c) = BlockedResult(tree.name[c])
                   /\ ContinuedAfter(i, n)

C3_Witness ==
    /\ evalPc = "returned"
    /\ tree = TwoRoots
    /\ Len(records) = 2
    /\ StudyKey(records[1]) # StudyKey(records[2])
    /\ Raised(1, 1)
    /\ Stored(1, 1) = ExceptionResult("A", RuleExceptionText)
    /\ Stored(1, 2) = BlockedResult("B")
    /\ Stored(1, 3).passed
    /\ Stored(2, 2).passed

\* C16 (tree identity wins over self-report): for every study key of the
\* outcome map and every key n of its sub-map, the stored outcome's name is
\* n, the name of a rule of the forest, whatever name the rule put into the
\* outcome it returned.
C16_TreeIdentity ==
    \A key \in DOMAIN all_results : \A n \in DOMAIN all_results[key] :
        /\ all_results[key][n].name = n
        /\ \E rule \in Reachable(tree) : tree.name[rule] = n

C16_Witness ==
    /\ evalPc = "returned"
    /\ tree = Chain
    /\ Len(records) = 1
    /\ calls[1] = <<<<"pass">>, <<"fail">>, <<>>>>
    /\ RuleEvaluate("pass").name # "A" /\ RuleEvaluate("fail").name # "B"
    /\ Stored(1, 1).name = "A" /\ Stored(1, 2).name = "B" /\ Stored(1, 3).name = "C"

\* The rules that n is a descendant of.
Ancestors(t, n) == {a \in Rules(t) : n \in Descendants(t, a)}

\* C18 (short-circuit): for every node of the batch that process_all has
\* evaluated and every rule of the forest, the rule's evaluate was called at
\* most once for the node, and it was called iff the evaluate of every
\* ancestor of the rule returned passed = true for the node; so no rule below
\* a rule that failed, raised or was blocked is ever called.
C18_ShortCircuit ==
    \A i \in 1..evalIdx : \A n \in Reachable(tree) :
        /\ Len(calls[i][n]) <= 1
        /\ Len(calls[i][n]) = 1 <=>
             \A a \in Ancestors(tree, n) : calls[i][a] = <<"pass">>

C18_Witness ==
    /\ evalPc = "returned"
    /\ tree = Chain
    /\ Len(records) = 2
    /\ calls[1] = <<<<"fail">>, <<>>, <<>>>>
    /\ calls[2] = <<<<"pass">>, <<"pass">>, <<"raise">>>>

\* The outcome rule n produced for node i, from what its evaluate did: the
\* BLOCKED outcome when it was not called, the ERROR outcome when it raised,
\* else what it returned, under the rule's name.
Produced(i, n) ==
    IF calls[i][n] = <<>> THEN BlockedResult(tree.name[n])
    ELSE IF calls[i][n][1] = "raise" THEN ExceptionResult(tree.name[n], RuleExceptionText)
    ELSE [RuleEvaluate(calls[i][n][1]) EXCEPT !.name = tree.name[n]]

\* The last evaluated node of the batch with the study key of node i: the
\* node whose sub-map the outcome map holds under that key.
LastEvaluatedWithKey(i) ==
    CHOOSE j \in i..evalIdx :
        /\ StudyKey(records[j]) = StudyKey(records[i])
        /\ \A l \in (j + 1)..evalIdx : StudyKey(records[l]) # StudyKey(records[i])

\* C19 (same-name rules across roots): for every evaluated node, the sub-map
\* stored under its study key has exactly the names of the reachable rules
\* as keys, and the one outcome stored for a name is the one produced by the
\* rule of that name visited last (roots in list order, each in pre-order),
\* whatever the rules of that name visited earlier produced.
C19_SameNameLastWins ==
    LET last == LastOfName(tree)
    IN \A i \in 1..evalIdx :
          /\ DOMAIN all_results[StudyKey(records[i])]
               = {tree.name[n] : n \in Reachable(tree)}
          /\ \A n \in last : Stored(i, n) = Produced(LastEvaluatedWithKey(i), n)

C19_Witness ==
    /\ evalPc = "returned"
    /\ tree = SharedRootName
    /\ Len(records) = 1
    /\ calls[1] = <<<<"pass">>, <<"pass">>, <<"fail">>>>
    /\ DOMAIN all_results[StudyKey(records[1])] = {"A", "B"}
    /\ ~Stored(1, 1).passed
    /\ Stored(1, 1).message = "check failed"
    /\ Stored(1, 2).passed

-----------------------------------------------------------------------------
(* Properties of the reporter.                                             *)

SankeyLinks == output.flow_summary.sankey_links

FlowReported == reportPc = "done" /\ tree.roots # <<>>

\* The positions of the links from source to target.
LinksBetween(source, target) ==
    {k \in 1..Len(SankeyLinks) :
        SankeyLinks[k].source = source /\ SankeyLinks[k].target = target}

\* The nodes of the batch whose stored outcome for rule n has passed = true.
NodesPassing(n) == {i \in 1..Len(records) : Stored(i, n).passed}

\* C5 (flow edge law): the links contain an edge (parent, child) for a
\* parent-child pair of the forest iff at least one node of the batch has
\* both outcomes passed, and the edge's value is the number of such nodes.
C5_FlowEdgeLaw ==
    FlowReported =>
        \A n \in Reachable(tree) : \A c \in ChildSet(tree, n) :
            LET both == NodesPassing(n) \cap NodesPassing(c)
                links == LinksBetween(tree.name[n], tree.name[c])
            IN /\ links # {} <=> both # {}
               /\ \A k \in links : SankeyLinks[k].value = Cardinality(both)

\* C6 (start-edge law): for every root the links contain an edge from
\* "_start" to the root iff at least one node of the batch passed the root,
\* and its value is the number of such nodes.
C6_StartEdgeLaw ==
    FlowReported =>
        \A r \in RootSet(tree) :
            LET links == LinksBetween("_start", tree.name[r])
            IN /\ links # {} <=> NodesPassing(r) # {}
               /\ \A k \in links : SankeyLinks[k].value = Cardinality(NodesPassing(r))

\* The start edges of the roots from the k-th on, in root order.
RECURSIVE StartEdges(_, _, _)
StartEdges(t, k, res) ==
    IF k > Len(t.roots)
    THEN <<>>
    ELSE LET root_name == t.name[t.roots[k]]
         IN (IF RootPassed(res, root_name) > 0
             THEN <<Link("_start", root_name, RootPassed(res, root_name))>>
             ELSE <<>>)
            \o StartEdges(t, k + 1, res)

ParentOf(t, n) == CHOOSE m \in Rules(t) : n \in ChildSet(t, m)

\* The edges into the rules order[k], order[k+1], ... that have a parent.
RECURSIVE EdgesInto(_, _, _, _)
EdgesInto(t, order, k, res) ==
    IF k > Len(order)
    THEN <<>>
    ELSE LET n == order[k]
         IN (IF n \notin RootSet(t)
                /\ FlowCount(res, t.name[ParentOf(t, n)], t.name[n]) > 0
             THEN <<Link(t.name[ParentOf(t, n)], t.name[n],
                         FlowCount(res, t.name[ParentOf(t, n)], t.name[n]))>>
             ELSE <<>>)
            \o EdgesInto(t, order, k + 1, res)

\* The tree edges in pre-order: the edge into a rule comes at the rule's
\* place in the visit order, roots in list order, children in declared order.
TreeEdges(t, res) == EdgesInto(t, VisitOrder(t), 1, res)

RECURSIVE Reverse(_)
Reverse(seq) == IF seq = <<>> THEN <<>> ELSE Reverse(Tail(seq)) \o <<Head(seq)>>

\* C7 as stated (edge order): the links are the start edges in root order,
\* followed by the tree edges in pre-order.
C7_EdgeOrderRootOrder ==
    FlowReported =>
        SankeyLinks = StartEdges(tree, 1, all_results) \o TreeEdges(tree, all_results)

\* C7, amended: the links are the start edges in the reverse of root order
\* (each is inserted at the front), followed by the tree edges in pre-order.
C7_EdgeOrder ==
    FlowReported =>
        SankeyLinks
          = Reverse(StartEdges(tree, 1, all_results)) \o TreeEdges(tree, all_results)

C7_Witness ==
    /\ FlowReported
    /\ tree = TwoRoots
    /\ SankeyLinks = <<Link("_start", "C", 1), Link("_start", "A", 2), Link("A", "B", 1)>>

\* No two rules of the forest have one name.
UniqueNames(t) ==
    \A m, n \in Reachable(t) : m # n => t.name[m] # t.name[n]

\* The source of the edge into rule n: "_start" for a root, else the name of
\* the rule's parent.
SourceInto(t, n) == IF n \in RootSet(t) THEN "_start" ELSE t.name[ParentOf(t, n)]

\* C22 (flow conservation): for a forest with unique rule names and the
\* outcome map of process_all, whenever the links hold an edge (parent,
\* child), they hold the edge into parent (from its own parent, or from
\* "_start" when parent is a root) and the value of (parent, child) is at most
\* the value of that edge; so values never increase along a path and every
\* edge is connected back to "_start".
C22_FlowConservation ==
    (FlowReported /\ UniqueNames(tree)) =>
        \A n \in Reachable(tree) : \A c \in ChildSet(tree, n) :
            \A k \in LinksBetween(tree.name[n], tree.name[c]) :
                LET into == LinksBetween(SourceInto(tree, n), tree.name[n])
                IN /\ into # {}
                   /\ \A l \in into : SankeyLinks[k].value <= SankeyLinks[l].value

C22_Witness ==
    /\ FlowReported
    /\ tree = Chain
    /\ SankeyLinks = <<Link("_start", "A", 2), Link("A", "B", 1), Link("B", "C", 1)>>

\* "study_" + participant_id + "_" + capture_date
KeyWithoutTime(node) == "study_" \o node.participant_id \o "_" \o node.capture_date

\* Nodes i and j share participant_id and capture_date and differ in
\* capture_time.
Collide(i, j) ==
    /\ records[i].participant_id = records[j].participant_id
    /\ records[i].capture_date = records[j].capture_date
    /\ records[i].capture_time # records[j].capture_time

\* The keys of the nodes of the batch for which rules n and c both passed.
KeysPassing(n, c) ==
    {KeyWithoutTime(records[i]) : i \in NodesPassing(n) \cap NodesPassing(c)}

TwoRecordExample(i, j) ==
    /\ tree = Pair
    /\ Len(records) = 2
    /\ {i, j} = {1, 2}
    /\ calls[i][1] = <<"pass">> /\ calls[i][2] = <<"pass">>
    /\ calls[j][1] \in {<<"fail">>, <<"raise">>}

\* C11 as stated (end-to-end example, two records): for two nodes evaluated
\* against the chain A -> B, one passing A and B and the other failing at A,
\* the links are exactly [_start -> A with value 2, A -> B with value 1].
\* Stated for two nodes with different study keys, whose outcomes the outcome
\* map holds side by side.
C11_TwoRecordExampleStartTwo ==
    FlowReported =>
        \A i, j \in 1..Len(records) :
            (TwoRecordExample(i, j) /\ StudyKey(records[1]) # StudyKey(records[2])) =>
                SankeyLinks = <<Link("_start", "A", 2), Link("A", "B", 1)>>

\* C11, amended: in that example the links are exactly [_start -> A with
\* value 1, A -> B with value 1], the start edge counting the one node that
\* passed A; when the two nodes have the same study key the outcome map holds
\* the outcomes of the later node only, and the links are those two when the
\* passing node is the later one and none when the failing node is.
C11_TwoRecordExample ==
    FlowReported =>
        \A i, j \in 1..Len(records) :
            TwoRecordExample(i, j) =>
                SankeyLinks =
                    IF StudyKey(records[1]) # StudyKey(records[2]) \/ i = 2
                    THEN <<Link("_start", "A", 1), Link("A", "B", 1)>>
                    ELSE <<>>

C11_Witness ==
    /\ FlowReported
    /\ TwoRecordExample(1, 2)
    /\ StudyKey(records[1]) # StudyKey(records[2])
    /\ SankeyLinks = <<Link("_start", "A", 1), Link("A", "B", 1)>>

\* The five-rule example: one node, Scheduled and Executed pass, RawData
\* fails.
PipelineExample ==
    /\ tree = Pipeline
    /\ records = <<ExampleRecord>>
    /\ calls[1][1] = <<"pass">> /\ calls[1][2] = <<"pass">>
    /\ calls[1][3] \in {<<"fail">>, <<"raise">>}

\* C12 (end-to-end example, one record): for one node and the tree
\* Scheduled -> Executed -> RawData -> [Inference, Reporting] in which
\* Scheduled and Executed pass and RawData fails, the outcomes are Scheduled
\* passed, Executed passed, RawData not passed, Inference and Reporting
\* BLOCKED (in the outcome map and in the report), and the links are exactly
\* [_start -> Scheduled (1), Scheduled -> Executed (1)].
C12_PipelineExample ==
    (reportPc = "done" /\ PipelineExample) =>
        LET steps == output.results[StudyKey(ExampleRecord)].pipeline_steps
        IN /\ Stored(1, 1).passed /\ Stored(1, 2).passed /\ ~Stored(1, 3).passed
           /\ Stored(1, 4) = BlockedResult("Inference")
           /\ Stored(1, 5) = BlockedResult("Reporting")
           /\ steps["Scheduled"].passed /\ steps["Executed"].passed
           /\ ~steps["RawData"].passed
           /\ steps["Inference"].status = "BLOCKED"
           /\ steps["Reporting"].status = "BLOCKED"
           /\ SankeyLinks = <<Link("_start", "Scheduled", 1),
                              Link("Scheduled", "Executed", 1)>>

C12_Witness ==
    /\ reportPc = "done"
    /\ PipelineExample
    /\ calls[1][3] = <<"fail">>
    /\ calls[1][4] = <<>> /\ calls[1][5] = <<>>
    /\ Len(SankeyLinks) = 2

C17_ReportSection ==
    reportPc = "done" =>
        \A i \in 1..Len(records) :
            LET key == StudyKey(records[i])
                steps == output.results[key].pipeline_steps
            IN IF key \in DOMAIN reportInput
               THEN /\ DOMAIN steps = DOMAIN reportInput[key]
                    /\ \A n \in DOMAIN steps :
                         LET res == reportInput[key][n]
                         IN /\ DOMAIN steps[n] = {"passed", "message"} \cup DOMAIN res.metadata
                            /\ \A k \in DOMAIN res.metadata : steps[n][k] = res.metadata[k]
                            /\ "passed" \notin DOMAIN res.metadata => steps[n].passed = res.passed
                            /\ "message" \notin DOMAIN res.metadata =>
                                 steps[n].message = res.message
               ELSE steps = EmptyDict

C17_Witness ==
    /\ reportPc = "done"
    /\ tree = Pair
    /\ records \in TwoKeys
    /\ DOMAIN reportInput = {StudyKey(records[1])}
    /\ reportInput[StudyKey(records[1])]["A"].passed
    /\ reportInput[StudyKey(records[1])]["A"].message = ""
    /\ output.results[StudyKey(records[1])].pipeline_steps["A"]
         = [passed |-> FALSE, message |-> "see detail", detail |-> "late"]
    /\ output.results[StudyKey(records[1])].pipeline_steps["B"]
         = [passed |-> FALSE, message |-> "Rule Exception: boom", status |-> "ERROR",
            exception |-> "boom"]
    /\ output.results[StudyKey(records[2])].pipeline_steps = EmptyDict

-----------------------------------------------------------------------------
(* Properties of a full run.                                               *)

\* generate has returned a report with a results entry for the study key of
\* every node of the batch, holding a step for every reachable rule.
RunComplete ==
    /\ reportPc = "done"
    /\ \A i \in 1..Len(records) :
         /\ StudyKey(records[i]) \in DOMAIN output.results
         /\ DOMAIN output.results[StudyKey(records[i])].pipeline_steps
              = {tree.name[n] : n \in Reachable(tree)}

\* C21 (evaluation and reporting are read-only on records): a step of
\* process_all or of generate leaves the identity fields, the metadata and
\* the errors of every node and the rule trees as they were; generate also
\* leaves the outcome map as it was, both the map process_all returned and the
\* argument it was handed.
C21_ReadOnly ==
    [][/\ (evalVars' # evalVars \/ reportVars' # reportVars) =>
            /\ records' = records
            /\ metadata' = metadata
            /\ errors' = errors
            /\ tree' = tree
       /\ reportVars' # reportVars =>
            /\ all_results' = all_results
            /\ reportInput' = all_results]_vars

C21_Witness ==
    /\ reportPc = "done"
    /\ Len(records) = 2
    /\ metadata[1] # EmptyDict
    /\ errors[1] # <<>>
    /\ DOMAIN all_results # {}
    /\ reportInput = all_results
    /\ output.results[StudyKey(records[1])].errors = errors[2]

\* C10 (a run terminates with a complete report): every run in which the
\* providers complete or fail eventually returns a complete report, and
\* neither execute nor process_all ever raises, whichever providers fail and
\* whichever rules raise.
C10_RunTerminates ==
    /\ <>RunComplete
    /\ [](execPc # "raised" /\ evalPc # "raised")

C10_Witness ==
    /\ RunComplete
    /\ Len(records) = 2
    /\ \E p, q \in ProviderIds : ppc[p] = "failed" /\ ppc[q] = "done"
    /\ \E n \in Reachable(tree) : Raised(1, n)
    /\ \E n \in Reachable(tree) : Raised(2, n)

====
